---- MODULE Spec2Model ----
(***************************************************************************)
(* Frontend logging middleware: the two logToServer implementations (the   *)
(* UI-bound "@/lib/logger" and the standalone starter-code/logger.ts),     *)
(* authenticate, and the two demo UIs that drive them (Index + AuthSection *)
(* + LoggingDemo, and the starter HomePage).                               *)
(*                                                                         *)
(* A JavaScript string is a sequence of one-character strings, so that     *)
(* toLowerCase, trim and template concatenation are computed, not assumed. *)
(* A value that is not a string (null, ...) is a one-element sequence      *)
(* holding a bracketed tag, which no real string contains.                 *)
(***************************************************************************)
EXTENDS Integers, Sequences, FiniteSets, Bags, TLC

VARIABLES
    app,                    \* which program runs: "index", "page" or "lib" (a direct caller of the module)
    mounted,                \* HomePage: the mount effect has run
    token,                  \* Index.token / HomePage.token
    isAuthenticated,        \* Index.isAuthenticated / HomePage.isAuthenticated
    credentials,            \* AuthSection.credentials (its email field decides the button)
    AuthSection_isLoading,  \* AuthSection.isLoading
    isAuthenticating,       \* HomePage.isAuthenticating
    logs,                   \* LoggingDemo.logs / HomePage.logs, newest first
    LoggingDemo_isLoading,  \* LoggingDemo.isLoading: null or the key of the last clicked example
    HomePage_isLoading,     \* HomePage.isLoading
    pending,                \* handler invocations suspended at an await, each with the request it has on the wire
    done,                   \* history: every entry a sendLog completion produced, newest first
    issued,                 \* history: the access_token of the last 2xx auth response (null before)
    lastOp                  \* history: the handler step just taken

vars == <<app, mounted, token, isAuthenticated, credentials, AuthSection_isLoading,
          isAuthenticating, logs, LoggingDemo_isLoading, HomePage_isLoading,
          pending, done, issued, lastOp>>

-----------------------------------------------------------------------------
(* JavaScript values *)

NULL == <<"<null>">>

EMPTY == <<>>

\* A value that is truthy and not a string (a number such as 42)
NUMBER == <<"<number>">>

NonStrings == {NULL, NUMBER}

\* typeof v === 'string'
IsString(v) == v \notin NonStrings

\* !v for a string, a non-zero number or null
Falsy(v) == v = NULL \/ v = EMPTY

ToLowerChar(c) ==
    CASE c = "A" -> "a" [] c = "B" -> "b" [] c = "C" -> "c" [] c = "D" -> "d"
      [] c = "E" -> "e" [] c = "F" -> "f" [] c = "G" -> "g" [] c = "H" -> "h"
      [] c = "I" -> "i" [] c = "J" -> "j" [] c = "K" -> "k" [] c = "L" -> "l"
      [] c = "M" -> "m" [] c = "N" -> "n" [] c = "O" -> "o" [] c = "P" -> "p"
      [] c = "Q" -> "q" [] c = "R" -> "r" [] c = "S" -> "s" [] c = "T" -> "t"
      [] c = "U" -> "u" [] c = "V" -> "v" [] c = "W" -> "w" [] c = "X" -> "x"
      [] c = "Y" -> "y" [] c = "Z" -> "z"
      [] OTHER -> c

\* Faulty variant: the casing of the input is kept
toLowerCase_keepCase(s) == s

\* String.prototype.toLowerCase
toLowerCase(s) == [i \in 1..Len(s) |-> ToLowerChar(s[i])]

IsWhiteSpace(c) == c \in {" ", "\t", "\n", "\r"}

RECURSIVE trimStart(_)
trimStart(s) ==
    IF s # EMPTY /\ IsWhiteSpace(Head(s)) THEN trimStart(Tail(s)) ELSE s

RECURSIVE trimEnd(_)
trimEnd(s) ==
    IF s # EMPTY /\ IsWhiteSpace(s[Len(s)]) THEN trimEnd(SubSeq(s, 1, Len(s) - 1)) ELSE s

\* Faulty variant: only the leading whitespace is removed
trim_startOnly(s) == trimStart(s)

\* String.prototype.trim
trim(s) == trimEnd(trimStart(s))

\* Array.prototype.slice(0, n)
slice0(s, n) == SubSeq(s, 1, IF Len(s) < n THEN Len(s) ELSE n)

-----------------------------------------------------------------------------
(* The closed enumerations of the wire protocol *)

LogLevel ==
    { <<"d","e","b","u","g">>, <<"i","n","f","o">>, <<"w","a","r","n">>,
      <<"e","r","r","o","r">>, <<"f","a","t","a","l">> }

FrontendPackage ==
    { <<"a","p","i">>, <<"c","o","m","p","o","n","e","n","t">>, <<"h","o","o","k">>,
      <<"p","a","g","e">>, <<"s","t","a","t","e">>, <<"s","t","y","l","e">>,
      <<"a","u","t","h">>, <<"c","o","n","f","i","g">>,
      <<"m","i","d","d","l","e","w","a","r","e">>, <<"u","t","i","l","s">> }

AUTH_ENDPOINT == "http://20.244.56.144/evaluation-service/auth"

LOGS_ENDPOINT == "http://20.244.56.144/evaluation-service/logs"

\* "frontend"
FRONTEND == <<"f","r","o","n","t","e","n","d">>

\* "Bearer "
BEARER == <<"B","e","a","r","e","r"," ">>

-----------------------------------------------------------------------------
(* HTTP: what fetch puts on the wire and what comes back *)

NoRequest == [url |-> "", authorization |-> NULL, body |-> <<>>]

NoLogBody == [logID |-> NULL, message |-> NULL]

NoAuthBody == [token_type |-> NULL, access_token |-> NULL, expires_in |-> 0]

\* fetch rejected: DNS, timeout, connection refused
LogTransportFailure == [rejected |-> TRUE, ok |-> FALSE, status |-> 0, body |-> NoLogBody]

AuthTransportFailure == [rejected |-> TRUE, ok |-> FALSE, status |-> 0, body |-> NoAuthBody]

NoLogResponse == [rejected |-> FALSE, ok |-> FALSE, status |-> 0, body |-> NoLogBody]

\* A promise's outcome: the value returned, or the error thrown
Return(v) == [threw |-> FALSE, error |-> "", status |-> 0, value |-> v]

Throw(e, st, none) == [threw |-> TRUE, error |-> e, status |-> st, value |-> none]

-----------------------------------------------------------------------------
(* @/lib/logger: the UI-bound module *)

\* Faulty variant: the Authorization header without its "Bearer " scheme
lib_logToServer_begin_noScheme(tok, level, pkg, message) ==
    [ threw   |-> FALSE,
      error   |-> "",
      fetches |-> << [ url           |-> LOGS_ENDPOINT,
                       authorization |-> tok,
                       body          |-> [ stack   |-> FRONTEND,
                                           level   |-> toLowerCase(level),
                                           package |-> toLowerCase(pkg),
                                           message |-> message ] ] >> ]

\* Faulty variant: the request sent twice
lib_logToServer_begin_twice(tok, level, pkg, message) ==
    LET request == [ url           |-> LOGS_ENDPOINT,
                     authorization |-> BEARER \o tok,
                     body          |-> [ stack   |-> FRONTEND,
                                         level   |-> toLowerCase(level),
                                         package |-> toLowerCase(pkg),
                                         message |-> message ] ]
    IN  [threw |-> FALSE, error |-> "", fetches |-> <<request, request>>]

\* logToServer up to its await of fetch: the requests it sends, or the error thrown before any
lib_logToServer_begin(tok, level, pkg, message) ==
    [ threw   |-> FALSE,
      error   |-> "",
      fetches |-> << [ url           |-> LOGS_ENDPOINT,
                       authorization |-> BEARER \o tok,
                       body          |-> [ stack   |-> FRONTEND,
                                           level   |-> toLowerCase(level),
                                           package |-> toLowerCase(pkg),
                                           message |-> message ] ] >> ]

\* Faulty variant: no check of response.ok
lib_logToServer_settle_noOkCheck(response) ==
    IF response.rejected THEN Throw("TypeError: Failed to fetch", 0, NoLogBody)
    ELSE Return(response.body)

\* Faulty variant: the logID of the acknowledgment is lowercased
lib_logToServer_settle_lowerId(response) ==
    IF response.rejected THEN Throw("TypeError: Failed to fetch", 0, NoLogBody)
    ELSE IF ~response.ok THEN Throw("HTTP error! status", response.status, NoLogBody)
    ELSE Return([response.body EXCEPT !.logID = toLowerCase(@)])

\* logToServer from the response on: response.ok, response.json(), the catch that rethrows
lib_logToServer_settle(response) ==
    IF response.rejected THEN Throw("TypeError: Failed to fetch", 0, NoLogBody)
    ELSE IF ~response.ok THEN Throw("HTTP error! status", response.status, NoLogBody)
    ELSE Return(response.body)

\* authenticate up to its await of fetch
lib_authenticate_begin(creds) ==
    [ threw   |-> FALSE,
      error   |-> "",
      fetches |-> << [ url |-> AUTH_ENDPOINT, authorization |-> NULL, body |-> creds ] >> ]

\* Faulty variant: the body is returned whatever the status
lib_authenticate_settle_noOkCheck(response) ==
    IF response.rejected THEN Throw("TypeError: Failed to fetch", 0, NoAuthBody)
    ELSE Return(response.body)

\* authenticate from the response on
lib_authenticate_settle(response) ==
    IF response.rejected THEN Throw("TypeError: Failed to fetch", 0, NoAuthBody)
    ELSE IF ~response.ok THEN Throw("Authentication failed! status", response.status, NoAuthBody)
    ELSE Return(response.body)

\* Faulty variant: warn forwards with the level of info
lib_createLogger_warnAsInfo(tok) ==
    [ debug |-> [token |-> tok, level |-> <<"d","e","b","u","g">>],
      info  |-> [token |-> tok, level |-> <<"i","n","f","o">>],
      warn  |-> [token |-> tok, level |-> <<"i","n","f","o">>],
      error |-> [token |-> tok, level |-> <<"e","r","r","o","r">>],
      fatal |-> [token |-> tok, level |-> <<"f","a","t","a","l">>] ]

\* createLogger(token): the object of five closures; a closure
\* (pkg, message) => logToServer(token, level, pkg, message) is the token it captured and
\* the level it passes
lib_createLogger(tok) ==
    [ debug |-> [token |-> tok, level |-> <<"d","e","b","u","g">>],
      info  |-> [token |-> tok, level |-> <<"i","n","f","o">>],
      warn  |-> [token |-> tok, level |-> <<"w","a","r","n">>],
      error |-> [token |-> tok, level |-> <<"e","r","r","o","r">>],
      fatal |-> [token |-> tok, level |-> <<"f","a","t","a","l">>] ]

-----------------------------------------------------------------------------
(* starter-code/logger.ts: the standalone module *)

\* Faulty variant: the two argument checks are missing
standalone_logToServer_begin_noValidation(tok, level, pkg, message) ==
    [ threw   |-> FALSE,
      error   |-> "",
      fetches |-> << [ url           |-> LOGS_ENDPOINT,
                       authorization |-> BEARER \o tok,
                       body          |-> [ stack   |-> FRONTEND,
                                           level   |-> toLowerCase(level),
                                           package |-> toLowerCase(pkg),
                                           message |-> trim(message) ] ] >> ]

standalone_logToServer_begin(tok, level, pkg, message) ==
    IF Falsy(tok) \/ ~IsString(tok)
    THEN [threw |-> TRUE, error |-> "Valid bearer token is required", fetches |-> <<>>]
    ELSE IF Falsy(message) \/ ~IsString(message)
    THEN [threw |-> TRUE, error |-> "Log message is required", fetches |-> <<>>]
    ELSE [ threw   |-> FALSE,
           error   |-> "",
           fetches |-> << [ url           |-> LOGS_ENDPOINT,
                            authorization |-> BEARER \o tok,
                            body          |-> [ stack   |-> FRONTEND,
                                                level   |-> toLowerCase(level),
                                                package |-> toLowerCase(pkg),
                                                message |-> trim(message) ] ] >> ]

standalone_logToServer_settle(response) ==
    IF response.rejected THEN Throw("TypeError: Failed to fetch", 0, NoLogBody)
    ELSE IF ~response.ok THEN Throw("HTTP", response.status, NoLogBody)
    ELSE Return(response.body)

\* createLogger(token) of the standalone module
standalone_createLogger(tok) ==
    [ debug |-> [token |-> tok, level |-> <<"d","e","b","u","g">>],
      info  |-> [token |-> tok, level |-> <<"i","n","f","o">>],
      warn  |-> [token |-> tok, level |-> <<"w","a","r","n">>],
      error |-> [token |-> tok, level |-> <<"e","r","r","o","r">>],
      fatal |-> [token |-> tok, level |-> <<"f","a","t","a","l">>] ]

\* The module a caller imports: "lib" is @/lib/logger, "standalone" is starter-code/logger.ts
logToServer_begin(variant, tok, level, pkg, message) ==
    IF variant = "lib" THEN lib_logToServer_begin(tok, level, pkg, message)
    ELSE standalone_logToServer_begin(tok, level, pkg, message)

logToServer_settle(variant, response) ==
    IF variant = "lib" THEN lib_logToServer_settle(response)
    ELSE standalone_logToServer_settle(response)

createLogger(variant, tok) ==
    IF variant = "lib" THEN lib_createLogger(tok) ELSE standalone_createLogger(tok)

-----------------------------------------------------------------------------
(* Suspended handler invocations and the history of the step just taken *)

\* A handler invocation suspended at an await: its arguments, the request it has on the
\* wire, how many requests it has sent, and token/isAuthenticated as they were when the
\* operation started
Call(fn, stage, variant, tok, level, pkg, message, fetches, token0, auth0) ==
    [ fn |-> fn, stage |-> stage, variant |-> variant,
      token |-> tok, level |-> level, package |-> pkg, message |-> message,
      request |-> IF fetches = <<>> THEN NoRequest ELSE fetches[1],
      nreq |-> Len(fetches),
      token0 |-> token0, auth0 |-> auth0 ]

NoCall == Call("", "", "", NULL, EMPTY, EMPTY, EMPTY, <<>>, NULL, FALSE)

NoResult == Return(NoLogBody)

\* branch: "await" (suspended on a request), "return" (early return), "try" (ended in the
\* try block), "catch" (ended in the catch block)
Op(name, branch, call, response, result) ==
    [op |-> name, branch |-> branch, call |-> call, response |-> response, result |-> result]

Suspended == BagToSet(pending)

Suspend(c) == pending (+) SetToBag({c})

Resume(c) == pending (-) SetToBag({c})

\* How many invocations of the handlers in fns are suspended
InFlight(fns) ==
    LET S == {c \in Suspended : c.fn \in fns}
    IN  BagCardinality([c \in S |-> pending[c]])

-----------------------------------------------------------------------------
(* What the server may answer *)

LogResponsesOK(ids) ==
    { [rejected |-> FALSE, ok |-> TRUE, status |-> 200,
       body |-> [logID |-> id, message |-> <<"l","o","g","g","e","d">>]] : id \in ids }

LogResponsesFailed(statuses) ==
    { [rejected |-> FALSE, ok |-> FALSE, status |-> st, body |-> NoLogBody] : st \in statuses }
        \cup {LogTransportFailure}

AuthResponsesOK(tokens) ==
    { [rejected |-> FALSE, ok |-> TRUE, status |-> 200,
       body |-> [token_type |-> <<"B","e","a","r","e","r">>, access_token |-> t,
                 expires_in |-> 3600]] : t \in tokens }

AuthResponsesFailed(statuses) ==
    { [rejected |-> FALSE, ok |-> FALSE, status |-> st, body |-> NoAuthBody] : st \in statuses }
        \cup {AuthTransportFailure}

-----------------------------------------------------------------------------
(* The retained log list of both UIs *)

MAX_LOGS == 10

Entry(id, level, pkg, message, status) ==
    [id |-> id, level |-> level, package |-> pkg, message |-> message, status |-> status]

\* Date.now() as text: the clock is one symbolic instant, no handler compares two readings
NOW == <<"<now>">>

\* Faulty variant: the updater without its slice
setLogs_updater_noSlice(newLog, prev) == <<newLog>> \o prev

\* prev => [newLog, ...prev].slice(0, 10)
setLogs_updater(newLog, prev) == slice0(<<newLog>> \o prev, MAX_LOGS)

-----------------------------------------------------------------------------
(* Index + AuthSection + LoggingDemo, on @/lib/logger *)

NoCredentials ==
    [email |-> EMPTY, name |-> EMPTY, rollNo |-> EMPTY, accessCode |-> EMPTY,
     clientID |-> EMPTY, clientSecret |-> EMPTY]

LOG_EXAMPLES ==
  <<
    \* "Debug trace: Processing user input validation"
    [level |-> <<"d", "e", "b", "u", "g">>, package |-> <<"u", "t", "i", "l", "s">>,
     message |-> <<"D", "e", "b", "u", "g", " ", "t", "r", "a", "c", "e", ":", " ", "P", "r", "o", "c", "e", "s", "s", "i", "n", "g", " ", "u", "s", "e", "r", " ", "i", "n", "p", "u", "t", " ", "v", "a", "l", "i", "d", "a", "t", "i", "o", "n">>],
    \* "User interface rendered successfully"
    [level |-> <<"i", "n", "f", "o">>, package |-> <<"c", "o", "m", "p", "o", "n", "e", "n", "t">>,
     message |-> <<"U", "s", "e", "r", " ", "i", "n", "t", "e", "r", "f", "a", "c", "e", " ", "r", "e", "n", "d", "e", "r", "e", "d", " ", "s", "u", "c", "c", "e", "s", "s", "f", "u", "l", "l", "y">>],
    \* "API response time exceeded 2 seconds"
    [level |-> <<"w", "a", "r", "n">>, package |-> <<"a", "p", "i">>,
     message |-> <<"A", "P", "I", " ", "r", "e", "s", "p", "o", "n", "s", "e", " ", "t", "i", "m", "e", " ", "e", "x", "c", "e", "e", "d", "e", "d", " ", "2", " ", "s", "e", "c", "o", "n", "d", "s">>],
    \* "Failed to refresh authentication token"
    [level |-> <<"e", "r", "r", "o", "r">>, package |-> <<"a", "u", "t", "h">>,
     message |-> <<"F", "a", "i", "l", "e", "d", " ", "t", "o", " ", "r", "e", "f", "r", "e", "s", "h", " ", "a", "u", "t", "h", "e", "n", "t", "i", "c", "a", "t", "i", "o", "n", " ", "t", "o", "k", "e", "n">>],
    \* "Critical error: Application crashed unexpectedly"
    [level |-> <<"f", "a", "t", "a", "l">>, package |-> <<"p", "a", "g", "e">>,
     message |-> <<"C", "r", "i", "t", "i", "c", "a", "l", " ", "e", "r", "r", "o", "r", ":", " ", "A", "p", "p", "l", "i", "c", "a", "t", "i", "o", "n", " ", "c", "r", "a", "s", "h", "e", "d", " ", "u", "n", "e", "x", "p", "e", "c", "t", "e", "d", "l", "y">>]
  >>

\* Faulty variant: the token is stored and isAuthenticated is left as it was
handleAuthSuccess_tokenOnly(authToken) ==
    /\ token' = authToken
    /\ isAuthenticated' = isAuthenticated

\* Index.handleAuthSuccess
handleAuthSuccess(authToken) ==
    /\ token' = authToken
    /\ isAuthenticated' = TRUE

\* AuthSection.handleInputChange: the form is only rendered while not authenticated
AuthSection_handleInputChange(field, value) ==
    /\ app = "index"
    /\ ~isAuthenticated
    /\ credentials[field] # value
    /\ credentials' = [credentials EXCEPT ![field] = value]
    /\ lastOp' = Op("AuthSection.handleInputChange", "return", NoCall, NoLogResponse, NoResult)
    /\ UNCHANGED <<app, mounted, token, isAuthenticated, AuthSection_isLoading,
                   isAuthenticating, logs, LoggingDemo_isLoading, HomePage_isLoading,
                   pending, done, issued>>

\* AuthSection.handleAuthenticate up to its await: the button is rendered while not
\* authenticated and enabled unless isLoading || !credentials.email
AuthSection_handleAuthenticate ==
    /\ app = "index"
    /\ ~isAuthenticated
    /\ ~(AuthSection_isLoading \/ Falsy(credentials.email))
    /\ LET b == lib_authenticate_begin(credentials)
           c == Call("AuthSection.handleAuthenticate", "auth", "lib", NULL, EMPTY, EMPTY,
                     EMPTY, b.fetches, token, isAuthenticated)
       IN  /\ AuthSection_isLoading' = TRUE
           /\ pending' = Suspend(c)
           /\ lastOp' = Op("AuthSection.handleAuthenticate", "await", c, NoLogResponse, NoResult)
    /\ UNCHANGED <<app, mounted, token, isAuthenticated, credentials, isAuthenticating,
                   logs, LoggingDemo_isLoading, HomePage_isLoading, done, issued>>

\* AuthSection.handleAuthenticate from the auth response on
AuthSection_handleAuthenticate_resume(c, response) ==
    /\ app = "index"
    /\ c \in Suspended
    /\ c.fn = "AuthSection.handleAuthenticate"
    /\ LET r == lib_authenticate_settle(response)
       IN  /\ IF r.threw
              THEN UNCHANGED <<token, isAuthenticated>>
              ELSE handleAuthSuccess(r.value.access_token)
           /\ lastOp' = Op("AuthSection.handleAuthenticate", IF r.threw THEN "catch" ELSE "try",
                           c, response, r)
    /\ AuthSection_isLoading' = FALSE
    /\ pending' = Resume(c)
    /\ issued' = IF ~response.rejected /\ response.ok THEN response.body.access_token ELSE issued
    /\ UNCHANGED <<app, mounted, credentials, isAuthenticating, logs, LoggingDemo_isLoading,
                   HomePage_isLoading, done>>

\* `${level}-${pkg}`
logKey(level, pkg) == level \o <<"-">> \o pkg

\* LoggingDemo.sendLog, the !token branch: a toast and return
LoggingDemo_sendLog_return ==
    /\ lastOp' = Op("LoggingDemo.sendLog", "return", NoCall, NoLogResponse, NoResult)
    /\ UNCHANGED <<app, mounted, token, isAuthenticated, credentials, AuthSection_isLoading,
                   isAuthenticating, logs, LoggingDemo_isLoading, HomePage_isLoading,
                   pending, done, issued>>

\* LoggingDemo.sendLog past the guard, up to its await of logToServer
LoggingDemo_sendLog_send(level, pkg, message) ==
    /\ LET b == lib_logToServer_begin(token, level, pkg, message)
           c == Call("LoggingDemo.sendLog", "log", "lib", token, level, pkg, message,
                     b.fetches, token, isAuthenticated)
       IN  /\ LoggingDemo_isLoading' = logKey(level, pkg)
           /\ pending' = Suspend(c)
           /\ lastOp' = Op("LoggingDemo.sendLog", "await", c, NoLogResponse, NoResult)
    /\ UNCHANGED <<app, mounted, token, isAuthenticated, credentials, AuthSection_isLoading,
                   isAuthenticating, logs, HomePage_isLoading, done, issued>>

\* Faulty variant: sendLog without its !token guard
LoggingDemo_sendLog_noGuard(level, pkg, message) ==
    LoggingDemo_sendLog_send(level, pkg, message)

\* LoggingDemo.sendLog up to its await
LoggingDemo_sendLog(level, pkg, message) ==
    IF Falsy(token)
    THEN LoggingDemo_sendLog_return
    ELSE LoggingDemo_sendLog_send(level, pkg, message)

\* `error-${Date.now()}`
LoggingDemo_errorId == <<"e","r","r","o","r","-">> \o NOW

\* LoggingDemo.sendLog from the logs response on: try, catch, finally
LoggingDemo_sendLog_resume(c, response) ==
    /\ app = "index"
    /\ c \in Suspended
    /\ c.fn = "LoggingDemo.sendLog"
    /\ LET r == lib_logToServer_settle(response)
           newLog == IF r.threw
                     THEN Entry(LoggingDemo_errorId, c.level, c.package, c.message, "error")
                     ELSE Entry(r.value.logID, c.level, c.package, c.message, "success")
       IN  /\ logs' = setLogs_updater(newLog, logs)
           /\ done' = <<newLog>> \o done
           /\ lastOp' = Op("LoggingDemo.sendLog", IF r.threw THEN "catch" ELSE "try",
                           c, response, r)
    /\ LoggingDemo_isLoading' = NULL
    /\ pending' = Resume(c)
    /\ UNCHANGED <<app, mounted, token, isAuthenticated, credentials, AuthSection_isLoading,
                   isAuthenticating, HomePage_isLoading, issued>>

\* A click on an example button: disabled={!token || isLoading === `${level}-${package}`}
LoggingDemo_onClick(example) ==
    /\ app = "index"
    /\ ~(Falsy(token) \/ LoggingDemo_isLoading = logKey(example.level, example.package))
    /\ LoggingDemo_sendLog(example.level, example.package, example.message)

\* sendLog reached while there is no token (the button is disabled then; the handler is
\* still a function of the component and guards itself)
LoggingDemo_sendLog_noToken(example) ==
    /\ app = "index"
    /\ Falsy(token)
    /\ LoggingDemo_sendLog(example.level, example.package, example.message)

-----------------------------------------------------------------------------
(* The starter HomePage, on starter-code/logger.ts *)

\* process.env.NEXT_PUBLIC_*: fixed by the build
ENV_CREDENTIALS ==
    [email |-> <<"<env:EMAIL>">>, name |-> <<"<env:NAME>">>, rollNo |-> <<"<env:ROLL_NO>">>,
     accessCode |-> <<"<env:ACCESS_CODE>">>, clientID |-> <<"<env:CLIENT_ID>">>,
     clientSecret |-> <<"<env:CLIENT_SECRET>">>]

logExamples ==
  <<
    \* "Component rendered successfully"
    [level |-> <<"d", "e", "b", "u", "g">>, package |-> <<"c", "o", "m", "p", "o", "n", "e", "n", "t">>,
     message |-> <<"C", "o", "m", "p", "o", "n", "e", "n", "t", " ", "r", "e", "n", "d", "e", "r", "e", "d", " ", "s", "u", "c", "c", "e", "s", "s", "f", "u", "l", "l", "y">>],
    \* "Page loaded and ready"
    [level |-> <<"i", "n", "f", "o">>, package |-> <<"p", "a", "g", "e">>,
     message |-> <<"P", "a", "g", "e", " ", "l", "o", "a", "d", "e", "d", " ", "a", "n", "d", " ", "r", "e", "a", "d", "y">>],
    \* "API response time exceeded threshold"
    [level |-> <<"w", "a", "r", "n">>, package |-> <<"a", "p", "i">>,
     message |-> <<"A", "P", "I", " ", "r", "e", "s", "p", "o", "n", "s", "e", " ", "t", "i", "m", "e", " ", "e", "x", "c", "e", "e", "d", "e", "d", " ", "t", "h", "r", "e", "s", "h", "o", "l", "d">>],
    \* "useEffect cleanup failed"
    [level |-> <<"e", "r", "r", "o", "r">>, package |-> <<"h", "o", "o", "k">>,
     message |-> <<"u", "s", "e", "E", "f", "f", "e", "c", "t", " ", "c", "l", "e", "a", "n", "u", "p", " ", "f", "a", "i", "l", "e", "d">>],
    \* "Critical authentication failure"
    [level |-> <<"f", "a", "t", "a", "l">>, package |-> <<"a", "u", "t", "h">>,
     message |-> <<"C", "r", "i", "t", "i", "c", "a", "l", " ", "a", "u", "t", "h", "e", "n", "t", "i", "c", "a", "t", "i", "o", "n", " ", "f", "a", "i", "l", "u", "r", "e">>]
  >>

\* The arguments of the log authenticate sends after a 2xx auth response:
\* 'info', 'auth', 'User successfully authenticated'
AUTH_LOG ==
    [level |-> <<"i", "n", "f", "o">>, package |-> <<"a", "u", "t", "h">>,
     message |-> <<"U", "s", "e", "r", " ", "s", "u", "c", "c", "e", "s", "s", "f", "u", "l", "l", "y", " ", "a", "u", "t", "h", "e", "n", "t", "i", "c", "a", "t", "e", "d">>]

\* HomePage.authenticate up to its await of fetch
HomePage_authenticate ==
    /\ LET c == Call("HomePage.authenticate", "auth", "standalone", NULL, EMPTY, EMPTY, EMPTY,
                     << [url |-> AUTH_ENDPOINT, authorization |-> NULL,
                         body |-> ENV_CREDENTIALS] >>,
                     token, isAuthenticated)
       IN  /\ isAuthenticating' = TRUE
           /\ pending' = Suspend(c)
           /\ lastOp' = Op("HomePage.authenticate", "await", c, NoLogResponse, NoResult)
    /\ UNCHANGED <<app, token, isAuthenticated, credentials, AuthSection_isLoading, logs,
                   LoggingDemo_isLoading, HomePage_isLoading, done, issued>>

\* useEffect(() => { authenticate(); }, [])
HomePage_mount ==
    /\ app = "page"
    /\ ~mounted
    /\ mounted' = TRUE
    /\ HomePage_authenticate

\* The Authenticate button: rendered while not authenticated, disabled={isAuthenticating}
HomePage_onAuthenticateClick ==
    /\ app = "page"
    /\ mounted
    /\ ~isAuthenticated
    /\ ~isAuthenticating
    /\ HomePage_authenticate
    /\ UNCHANGED mounted

\* HomePage.authenticate from the auth response to its await of logToServer, or to its end
\* when the response is not 2xx or logToServer throws before any request
HomePage_authenticate_resume(c, response) ==
    /\ app = "page"
    /\ c \in Suspended
    /\ c.fn = "HomePage.authenticate"
    /\ c.stage = "auth"
    /\ IF response.rejected \/ ~response.ok
       THEN /\ isAuthenticating' = FALSE
            /\ pending' = Resume(c)
            /\ lastOp' = Op("HomePage.authenticate", "catch", c, response,
                            Throw("Authentication failed", response.status, NoLogBody))
            /\ UNCHANGED <<token, isAuthenticated, issued>>
       ELSE LET access_token == response.body.access_token
                b == standalone_logToServer_begin(access_token, AUTH_LOG.level,
                                                  AUTH_LOG.package, AUTH_LOG.message)
                c2 == Call("HomePage.authenticate", "log", "standalone", access_token,
                           AUTH_LOG.level, AUTH_LOG.package, AUTH_LOG.message, b.fetches,
                           c.token0, c.auth0)
            IN  /\ token' = access_token
                /\ isAuthenticated' = TRUE
                /\ issued' = access_token
                /\ IF b.threw
                   THEN /\ isAuthenticating' = FALSE
                        /\ pending' = Resume(c)
                        /\ lastOp' = Op("HomePage.authenticate", "catch", c2, response,
                                        Throw(b.error, 0, NoLogBody))
                   ELSE /\ isAuthenticating' = TRUE
                        /\ pending' = Resume(c) (+) SetToBag({c2})
                        /\ lastOp' = Op("HomePage.authenticate", "await", c2, response, NoResult)
    /\ UNCHANGED <<app, mounted, credentials, AuthSection_isLoading, logs,
                   LoggingDemo_isLoading, HomePage_isLoading, done>>

\* Faulty variant: the catch block rolls the authentication back when the log fails
HomePage_authenticate_resume_log_rollback(c, response) ==
    /\ app = "page"
    /\ c \in Suspended
    /\ c.fn = "HomePage.authenticate"
    /\ c.stage = "log"
    /\ LET r == standalone_logToServer_settle(response)
       IN  /\ lastOp' = Op("HomePage.authenticate", IF r.threw THEN "catch" ELSE "try",
                           c, response, r)
           /\ token' = IF r.threw THEN NULL ELSE token
           /\ isAuthenticated' = IF r.threw THEN FALSE ELSE isAuthenticated
    /\ isAuthenticating' = FALSE
    /\ pending' = Resume(c)
    /\ UNCHANGED <<app, mounted, credentials, AuthSection_isLoading,
                   logs, LoggingDemo_isLoading, HomePage_isLoading, done, issued>>

\* HomePage.authenticate from the response to its log on: try end, or catch; finally
HomePage_authenticate_resume_log(c, response) ==
    /\ app = "page"
    /\ c \in Suspended
    /\ c.fn = "HomePage.authenticate"
    /\ c.stage = "log"
    /\ LET r == standalone_logToServer_settle(response)
       IN  lastOp' = Op("HomePage.authenticate", IF r.threw THEN "catch" ELSE "try",
                        c, response, r)
    /\ isAuthenticating' = FALSE
    /\ pending' = Resume(c)
    /\ UNCHANGED <<app, mounted, token, isAuthenticated, credentials, AuthSection_isLoading,
                   logs, LoggingDemo_isLoading, HomePage_isLoading, done, issued>>

\* HomePage.sendLog, the !token branch: an alert and return
HomePage_sendLog_return ==
    /\ lastOp' = Op("HomePage.sendLog", "return", NoCall, NoLogResponse, NoResult)
    /\ UNCHANGED <<app, mounted, token, isAuthenticated, credentials, AuthSection_isLoading,
                   isAuthenticating, logs, LoggingDemo_isLoading, HomePage_isLoading,
                   pending, done, issued>>

\* Faulty variant: an entry that inherits the failure of the entry before it
HomePage_logEntry_sticky(level, pkg, message, status) ==
    Entry(NOW, level, pkg, message,
          IF logs # <<>> /\ logs[1].status = "error" THEN "error" ELSE status)

\* The entry HomePage.sendLog builds before the call: id Date.now().toString()
HomePage_logEntry(level, pkg, message, status) == Entry(NOW, level, pkg, message, status)

\* HomePage.sendLog past the guard, up to its await of logToServer (or through its catch
\* when logToServer throws before any request)
HomePage_sendLog_send(level, pkg, message) ==
    /\ LET b == standalone_logToServer_begin(token, level, pkg, message)
           c == Call("HomePage.sendLog", "log", "standalone", token, level, pkg, message,
                     b.fetches, token, isAuthenticated)
           failed == HomePage_logEntry(level, pkg, message, "error")
       IN  IF b.threw
           THEN /\ logs' = setLogs_updater(failed, logs)
                /\ done' = <<failed>> \o done
                /\ HomePage_isLoading' = FALSE
                /\ lastOp' = Op("HomePage.sendLog", "catch", c, NoLogResponse,
                                Throw(b.error, 0, NoLogBody))
                /\ UNCHANGED pending
           ELSE /\ HomePage_isLoading' = TRUE
                /\ pending' = Suspend(c)
                /\ lastOp' = Op("HomePage.sendLog", "await", c, NoLogResponse, NoResult)
                /\ UNCHANGED <<logs, done>>
    /\ UNCHANGED <<app, mounted, token, isAuthenticated, credentials, AuthSection_isLoading,
                   isAuthenticating, LoggingDemo_isLoading, issued>>

\* HomePage.sendLog up to its await
HomePage_sendLog(level, pkg, message) ==
    IF Falsy(token)
    THEN HomePage_sendLog_return
    ELSE HomePage_sendLog_send(level, pkg, message)

\* HomePage.sendLog from the logs response on: try, catch, finally
HomePage_sendLog_resume(c, response) ==
    /\ app = "page"
    /\ c \in Suspended
    /\ c.fn = "HomePage.sendLog"
    /\ LET r == standalone_logToServer_settle(response)
           logEntry == HomePage_logEntry(c.level, c.package, c.message,
                                         IF r.threw THEN "error" ELSE "success")
       IN  /\ logs' = setLogs_updater(logEntry, logs)
           /\ done' = <<logEntry>> \o done
           /\ lastOp' = Op("HomePage.sendLog", IF r.threw THEN "catch" ELSE "try",
                           c, response, r)
    /\ HomePage_isLoading' = FALSE
    /\ pending' = Resume(c)
    /\ UNCHANGED <<app, mounted, token, isAuthenticated, credentials, AuthSection_isLoading,
                   isAuthenticating, LoggingDemo_isLoading, issued>>

\* A click on an example button: disabled={!token || isLoading}
HomePage_onClick(example) ==
    /\ app = "page"
    /\ mounted
    /\ ~(Falsy(token) \/ HomePage_isLoading)
    /\ HomePage_sendLog(example.level, example.package, example.message)

\* sendLog reached while there is no token (the button is disabled then; the handler
\* guards itself)
HomePage_sendLog_noToken(example) ==
    /\ app = "page"
    /\ mounted
    /\ Falsy(token)
    /\ HomePage_sendLog(example.level, example.package, example.message)

-----------------------------------------------------------------------------
(* A module that imports the logger and makes one call: calls share no state, so a run *)
(* is one call, with its arguments drawn from the input sets                          *)

\* Nothing has been called yet
Fresh == lastOp.op = ""

\* await logToServer(token, level, pkg, message), up to the await of fetch
Caller_logToServer(variant, tok, level, pkg, message) ==
    /\ app = "lib"
    /\ Fresh
    /\ LET b == logToServer_begin(variant, tok, level, pkg, message)
           c == Call("logToServer", "log", variant, tok, level, pkg, message, b.fetches,
                     NULL, FALSE)
       IN  IF b.threw
           THEN /\ lastOp' = Op("logToServer", "catch", c, NoLogResponse,
                                Throw(b.error, 0, NoLogBody))
                /\ UNCHANGED pending
           ELSE /\ pending' = Suspend(c)
                /\ lastOp' = Op("logToServer", "await", c, NoLogResponse, NoResult)
    /\ UNCHANGED <<app, mounted, token, isAuthenticated, credentials, AuthSection_isLoading,
                   isAuthenticating, logs, LoggingDemo_isLoading, HomePage_isLoading,
                   done, issued>>

\* The response to that call arrives: the promise settles
Caller_logToServer_resume(c, response) ==
    /\ app = "lib"
    /\ c \in Suspended
    /\ c.fn = "logToServer"
    /\ LET r == logToServer_settle(c.variant, response)
       IN  lastOp' = Op("logToServer", IF r.threw THEN "catch" ELSE "try", c, response, r)
    /\ pending' = Resume(c)
    /\ UNCHANGED <<app, mounted, token, isAuthenticated, credentials, AuthSection_isLoading,
                   isAuthenticating, logs, LoggingDemo_isLoading, HomePage_isLoading,
                   done, issued>>

\* await createLogger(tok)[method](pkg, message), up to the await of fetch; the call
\* records the method in its stage, the caller's token and the level the closure passed
Caller_createLogger(variant, tok, method, pkg, message) ==
    /\ app = "lib"
    /\ Fresh
    /\ LET f == createLogger(variant, tok)[method]
           b == logToServer_begin(variant, f.token, f.level, pkg, message)
           c == Call("createLogger", method, variant, tok, f.level, pkg, message, b.fetches,
                     NULL, FALSE)
       IN  IF b.threw
           THEN /\ lastOp' = Op("createLogger", "catch", c, NoLogResponse,
                                Throw(b.error, 0, NoLogBody))
                /\ UNCHANGED pending
           ELSE /\ pending' = Suspend(c)
                /\ lastOp' = Op("createLogger", "await", c, NoLogResponse, NoResult)
    /\ UNCHANGED <<app, mounted, token, isAuthenticated, credentials, AuthSection_isLoading,
                   isAuthenticating, logs, LoggingDemo_isLoading, HomePage_isLoading,
                   done, issued>>

Caller_createLogger_resume(c, response) ==
    /\ app = "lib"
    /\ c \in Suspended
    /\ c.fn = "createLogger"
    /\ LET r == logToServer_settle(c.variant, response)
       IN  lastOp' = Op("createLogger", IF r.threw THEN "catch" ELSE "try", c, response, r)
    /\ pending' = Resume(c)
    /\ UNCHANGED <<app, mounted, token, isAuthenticated, credentials, AuthSection_isLoading,
                   isAuthenticating, logs, LoggingDemo_isLoading, HomePage_isLoading,
                   done, issued>>

\* await authenticate(credentials), up to the await of fetch
Caller_authenticate(creds) ==
    /\ app = "lib"
    /\ Fresh
    /\ LET b == lib_authenticate_begin(creds)
           c == Call("authenticate", "auth", "lib", NULL, EMPTY, EMPTY, EMPTY, b.fetches,
                     NULL, FALSE)
       IN  /\ pending' = Suspend(c)
           /\ lastOp' = Op("authenticate", "await", c, NoLogResponse, NoResult)
    /\ UNCHANGED <<app, mounted, token, isAuthenticated, credentials, AuthSection_isLoading,
                   isAuthenticating, logs, LoggingDemo_isLoading, HomePage_isLoading,
                   done, issued>>

Caller_authenticate_resume(c, response) ==
    /\ app = "lib"
    /\ c \in Suspended
    /\ c.fn = "authenticate"
    /\ LET r == lib_authenticate_settle(response)
       IN  lastOp' = Op("authenticate", IF r.threw THEN "catch" ELSE "try", c, response, r)
    /\ pending' = Resume(c)
    /\ UNCHANGED <<app, mounted, token, isAuthenticated, credentials, AuthSection_isLoading,
                   isAuthenticating, logs, LoggingDemo_isLoading, HomePage_isLoading,
                   done, issued>>

-----------------------------------------------------------------------------
(* Inputs and bounds *)

\* sendLog invocations that reach the server, per run
MaxSends == 2

\* sendLog invocations suspended at once
MaxInFlight == 2

\* sendLog invocations that reach the server, per run of SpecCap: one past MAX_LOGS
CapSends == 11

\* SpecCap: sends overlap, and the second example button is clicked, only before this
\* many sends have completed; later sends go one at a time
CapOverlap == 2

T1 == <<"t","1">>

T2 == <<"t","2">>

\* The access tokens the auth endpoint issues
ACCESS_TOKENS == {T1, T2}

ERROR_STATUSES == {401, 500}

LOG_IDS == { <<"L","1">>, <<"L","2">> }

CREDENTIAL_FIELDS == {"email", "accessCode"}

CREDENTIAL_VALUES == {EMPTY, <<"x">>}

VARIANTS == {"lib", "standalone"}

LOGGER_METHODS == {"debug", "info", "warn", "error", "fatal"}

\* "", "t1", null, 42
TOKEN_INPUTS == {EMPTY, T1, NULL, NUMBER}

\* "error", "ERROR", "Warn", "verbose", ""
LEVEL_INPUTS ==
    { <<"e","r","r","o","r">>, <<"E","R","R","O","R">>, <<"W","a","r","n">>,
      <<"v","e","r","b","o","s","e">>, EMPTY }

\* "api", "API", "Utils", "database"
PACKAGE_INPUTS ==
    { <<"a","p","i">>, <<"A","P","I">>, <<"U","t","i","l","s">>,
      <<"d","a","t","a","b","a","s","e">> }

\* "", "  \t", "hello", "  hello  ", null, 42
MESSAGE_INPUTS ==
    { EMPTY, <<" "," ","\t">>, <<"h","e","l","l","o">>,
      <<" "," ","h","e","l","l","o"," "," ">>, NULL, NUMBER }

SendLogFns == {"LoggingDemo.sendLog", "HomePage.sendLog"}

\* Another sendLog may still reach the server
CanSend(maxSends, maxInFlight) ==
    /\ Len(done) + InFlight(SendLogFns) < maxSends
    /\ InFlight(SendLogFns) < maxInFlight

-----------------------------------------------------------------------------
(* Specifications *)

InitOf(apps) ==
    /\ app \in apps
    /\ mounted = (app # "page")
    /\ token = NULL
    /\ isAuthenticated = FALSE
    /\ credentials = NoCredentials
    /\ AuthSection_isLoading = FALSE
    /\ isAuthenticating = FALSE
    /\ logs = <<>>
    /\ LoggingDemo_isLoading = NULL
    /\ HomePage_isLoading = FALSE
    /\ pending = EmptyBag
    /\ done = <<>>
    /\ issued = NULL
    /\ lastOp = Op("", "", NoCall, NoLogResponse, NoResult)

Init == InitOf({"index", "page", "lib"})

AuthResponses == AuthResponsesOK(ACCESS_TOKENS) \cup AuthResponsesFailed(ERROR_STATUSES)

LogResponses == LogResponsesOK(LOG_IDS) \cup LogResponsesFailed(ERROR_STATUSES)

Next ==
    \/ \E f \in CREDENTIAL_FIELDS, v \in CREDENTIAL_VALUES : AuthSection_handleInputChange(f, v)
    \/ AuthSection_handleAuthenticate
    \/ \E c \in Suspended, r \in AuthResponses : AuthSection_handleAuthenticate_resume(c, r)
    \/ \E i \in DOMAIN LOG_EXAMPLES :
          CanSend(MaxSends, MaxInFlight) /\ LoggingDemo_onClick(LOG_EXAMPLES[i])
    \/ \E i \in DOMAIN LOG_EXAMPLES : LoggingDemo_sendLog_noToken(LOG_EXAMPLES[i])
    \/ \E c \in Suspended, r \in LogResponses : LoggingDemo_sendLog_resume(c, r)
    \/ HomePage_mount
    \/ HomePage_onAuthenticateClick
    \/ \E c \in Suspended, r \in AuthResponses : HomePage_authenticate_resume(c, r)
    \/ \E c \in Suspended, r \in LogResponses : HomePage_authenticate_resume_log(c, r)
    \/ \E i \in DOMAIN logExamples :
          CanSend(MaxSends, MaxInFlight) /\ HomePage_onClick(logExamples[i])
    \/ \E i \in DOMAIN logExamples : HomePage_sendLog_noToken(logExamples[i])
    \/ \E c \in Suspended, r \in LogResponses : HomePage_sendLog_resume(c, r)
    \/ \E v \in VARIANTS, t \in TOKEN_INPUTS, l \in LEVEL_INPUTS, p \in PACKAGE_INPUTS,
          m \in MESSAGE_INPUTS : Caller_logToServer(v, t, l, p, m)
    \/ \E c \in Suspended, r \in LogResponses : Caller_logToServer_resume(c, r)
    \/ \E v \in VARIANTS, t \in TOKEN_INPUTS, f \in LOGGER_METHODS, p \in PACKAGE_INPUTS,
          m \in MESSAGE_INPUTS : Caller_createLogger(v, t, f, p, m)
    \/ \E c \in Suspended, r \in LogResponses : Caller_createLogger_resume(c, r)
    \/ \E v \in CREDENTIAL_VALUES : Caller_authenticate([NoCredentials EXCEPT !.email = v])
    \/ \E c \in Suspended, r \in AuthResponses : Caller_authenticate_resume(c, r)

Spec == Init /\ [][Next]_vars

\* The same UIs driven deep enough to overflow the retained list: one example button (and
\* a second one early in the run, so that sends overlap), one token, one logID, one
\* failure status
InitCap == InitOf({"index", "page"})

CapAuthResponses == AuthResponsesOK({T1}) \cup AuthResponsesFailed({401})

CapLogResponses ==
    LogResponsesOK({<<"L","1">>})
        \cup { [rejected |-> FALSE, ok |-> FALSE, status |-> 401, body |-> NoLogBody] }

CapCanSend == CanSend(CapSends, IF Len(done) < CapOverlap THEN MaxInFlight ELSE 1)

NextCap ==
    \/ AuthSection_handleInputChange("email", <<"x">>)
    \/ AuthSection_handleAuthenticate
    \/ \E c \in Suspended, r \in CapAuthResponses : AuthSection_handleAuthenticate_resume(c, r)
    \/ CapCanSend /\ LoggingDemo_onClick(LOG_EXAMPLES[1])
    \/ CapCanSend /\ Len(done) < CapOverlap /\ LoggingDemo_onClick(LOG_EXAMPLES[2])
    \/ \E c \in Suspended, r \in CapLogResponses : LoggingDemo_sendLog_resume(c, r)
    \/ HomePage_mount
    \/ HomePage_onAuthenticateClick
    \/ \E c \in Suspended, r \in CapAuthResponses : HomePage_authenticate_resume(c, r)
    \/ \E c \in Suspended, r \in CapLogResponses : HomePage_authenticate_resume_log(c, r)
    \/ CapCanSend /\ HomePage_onClick(logExamples[1])
    \/ \E c \in Suspended, r \in CapLogResponses : HomePage_sendLog_resume(c, r)

SpecCap == InitCap /\ [][NextCap]_vars

-----------------------------------------------------------------------------
(* Claims *)

Min(a, b) == IF a < b THEN a ELSE b

\* The step just taken resumed a sendLog at its logs response
SendLogSettled == lastOp.op \in SendLogFns /\ lastOp.branch \in {"try", "catch"}

\* A response with a non-2xx status
IsHttpError(response) == ~response.rejected /\ ~response.ok /\ response.status # 0

\* C1: the retained log list never holds more than 10 entries and is exactly the
\* min(n, 10) most recently completed sends, newest first (done is the full history
\* of completions, newest first), so the 11th completion drops the oldest entry.
C1_RetainedLogsAreLastTen ==
    /\ Len(logs) <= MAX_LOGS
    /\ Len(logs) = Min(Len(done), MAX_LOGS)
    /\ \A i \in 1..Len(logs) : logs[i] = done[i]

\* An 11th send completed in the LoggingDemo after overlapping sends of two examples,
\* with successes and failures in the history: the oldest entry is gone
C1_Witness ==
    /\ app = "index"
    /\ Len(done) = MAX_LOGS + 1
    /\ Len(logs) = MAX_LOGS
    /\ done[MAX_LOGS + 1] # done[MAX_LOGS]
    /\ \E i, j \in 1..Len(logs) : logs[i].status = "success" /\ logs[j].status = "error"

\* C2: when the logs endpoint answers a sendLog's request with a non-2xx status,
\* logToServer throws and that sendLog puts exactly one entry at the head of the
\* retained list, with status "error" (never "success"); the rest of the list is the
\* old list, cut to the cap.
C2_HttpErrorGivesOneErrorEntry ==
    [][ (SendLogSettled' /\ IsHttpError(lastOp'.response))
          => /\ lastOp'.result.threw
             /\ Len(done') = Len(done) + 1
             /\ Len(logs') = Min(Len(logs) + 1, MAX_LOGS)
             /\ logs'[1].status = "error"
             /\ logs'[1].level = lastOp'.call.level
             /\ logs'[1].message = lastOp'.call.message
             /\ \A i \in 2..Len(logs') : logs'[i] = logs[i - 1] ]_vars

\* A sendLog of the LoggingDemo was answered 401 and its entry is an error entry
C2_Witness ==
    /\ lastOp.op = "LoggingDemo.sendLog"
    /\ lastOp.branch = "catch"
    /\ lastOp.response.status = 401
    /\ ~lastOp.response.rejected
    /\ logs # <<>>
    /\ logs[1].status = "error"

\* An authenticate operation of a UI ended in its catch block
AuthFailed ==
    /\ lastOp.op \in {"AuthSection.handleAuthenticate", "HomePage.authenticate"}
    /\ lastOp.branch = "catch"

\* C3: whenever an authenticate operation ends in its failure branch, token and
\* isAuthenticated have the values they had when that operation started.
C3_FailedAuthLeavesStateUnchanged ==
    AuthFailed => (token = lastOp.call.token0 /\ isAuthenticated = lastOp.call.auth0)

\* C4: once authenticated (isAuthenticated true, token set), every later step keeps
\* isAuthenticated true and the token non-null.
C4_AuthenticatedIsStable ==
    [][ (isAuthenticated /\ token # NULL) => (isAuthenticated' /\ token' # NULL) ]_vars

\* Authenticated, and a log send has just been answered 401: still authenticated
C4_Witness ==
    /\ SendLogSettled
    /\ lastOp.response.status = 401
    /\ done # <<>>
    /\ done[1].status = "error"
    /\ isAuthenticated
    /\ token = T1

\* A UI invocation has a request to the logs endpoint on the wire
LogsRequestOnWire(c) == c.request.url = LOGS_ENDPOINT /\ c.nreq > 0

\* C5: in the UIs every request to the logs endpoint follows a 2xx auth response and
\* carries the access_token of that response; and a sendLog invoked while token is
\* null sends nothing, adds no entry and leaves the loading flags alone.
C5_NoLogRequestBeforeAuth ==
    /\ [](app # "lib" =>
            \A c \in Suspended :
                LogsRequestOnWire(c) =>
                    /\ issued \in ACCESS_TOKENS
                    /\ c.request.authorization = BEARER \o issued)
    /\ [][ (token = NULL /\ lastOp'.op \in SendLogFns)
             => /\ pending' = pending
                /\ logs' = logs
                /\ LoggingDemo_isLoading' = LoggingDemo_isLoading
                /\ HomePage_isLoading' = HomePage_isLoading ]_vars

\* The starter page has a sendLog request on the wire, carrying the issued token
C5_Witness ==
    /\ app = "page"
    /\ issued = T1
    /\ \E c \in Suspended :
          /\ c.fn = "HomePage.sendLog"
          /\ c.request.url = LOGS_ENDPOINT
          /\ c.request.authorization = <<"B","e","a","r","e","r"," ","t","1">>

\* C6: every request logToServer sends carries "Bearer " followed by exactly the token
\* it was given; in the UIs that token, and the token the UI holds, is the access_token
\* of the last 2xx auth response; and no step of a sendLog changes the UI's token.
C6_BearerTokenVerbatim ==
    /\ [](\A c \in Suspended :
            LogsRequestOnWire(c) =>
                /\ Len(c.request.authorization) = Len(BEARER) + Len(c.token)
                /\ SubSeq(c.request.authorization, 1, Len(BEARER)) = BEARER
                /\ SubSeq(c.request.authorization, Len(BEARER) + 1,
                          Len(c.request.authorization)) = c.token
                /\ (app # "lib" => c.token = issued))
    /\ [](app # "lib" => token = issued)
    /\ [][ lastOp'.op \in SendLogFns => token' = token ]_vars

\* The LoggingDemo has a request on the wire with "Bearer t2", t2 being the token issued
C6_Witness ==
    /\ app = "index"
    /\ token = T2
    /\ \E c \in Suspended :
          /\ c.fn = "LoggingDemo.sendLog"
          /\ c.token = T2
          /\ c.request.authorization = <<"B","e","a","r","e","r"," ","t","2">>

\* The errors logToServer throws before any request (standalone module)
ValidationErrors == {"Valid bearer token is required", "Log message is required"}

\* A response that makes the call fail: non-2xx, or no response at all
IsFailure(response) == response.rejected \/ IsHttpError(response)

\* C7: a call of authenticate or logToServer sends at most one request, and exactly one
\* unless local validation rejected its input; once its response is a non-2xx status or
\* a transport failure the call has thrown to its caller and nothing of it is left
\* suspended, so no second request follows.
C7_OneRequestPerCall ==
    /\ \A c \in Suspended : c.nreq = 1
    /\ lastOp.call.nreq <= 1
    /\ (app = "lib" /\ ~Fresh) =>
          /\ lastOp.call.nreq = 0 <=>
                (lastOp.branch = "catch" /\ lastOp.result.error \in ValidationErrors)
          /\ lastOp.branch # "await" => pending = EmptyBag
          /\ IsFailure(lastOp.response) => (lastOp.result.threw /\ pending = EmptyBag)

\* A direct logToServer call was answered 500: one request sent, the error thrown, no
\* request left
C7_Witness ==
    /\ app = "lib"
    /\ lastOp.op = "logToServer"
    /\ lastOp.response.status = 500
    /\ lastOp.result.threw
    /\ lastOp.call.nreq = 1
    /\ pending = EmptyBag

\* The loading flag of the running UI is idle
LoadingIdle ==
    IF app = "page" THEN HomePage_isLoading = FALSE ELSE LoggingDemo_isLoading = NULL

\* C8: a sendLog that fails leaves the loading flag idle, and the status of the entry a
\* sendLog records is decided by the response to its own request alone, whatever failed
\* before; a sendLog that gets past its guard sends one fresh request with the UI's token.
C8_FailureDoesNotPoison ==
    [][ /\ SendLogSettled' =>
            /\ Len(done') = Len(done) + 1
            /\ done'[1].status =
                  (IF ~lastOp'.response.rejected /\ lastOp'.response.ok
                   THEN "success" ELSE "error")
            /\ lastOp'.branch = "catch" => LoadingIdle'
        /\ (lastOp'.op \in SendLogFns /\ lastOp'.branch = "await") =>
            /\ lastOp'.call.nreq = 1
            /\ lastOp'.call.token = token
            /\ BagCardinality(pending') = BagCardinality(pending) + 1 ]_vars

\* On the starter page a send failed and the next one, sent afterwards with the same
\* token, succeeded
C8_Witness ==
    /\ app = "page"
    /\ Len(done) = 2
    /\ done[2].status = "error"
    /\ done[1].status = "success"
    /\ lastOp.op = "HomePage.sendLog"
    /\ lastOp.call.token = token
    /\ LoadingIdle

\* C9: every log record on the wire carries a non-empty message.
C9_MessageNeverEmpty ==
    \A c \in Suspended : LogsRequestOnWire(c) => c.request.body.message # EMPTY

\* C10: every log record on the wire has its level and its package in the closed
\* enumerations.
C10_LevelAndPackageInEnums ==
    \A c \in Suspended :
        LogsRequestOnWire(c) =>
            /\ c.request.body.level \in LogLevel
            /\ c.request.body.package \in FrontendPackage


\* The call just made has an empty or non-string token or message
C11_InvalidArgument ==
    \/ lastOp.call.token \in {EMPTY, NULL, NUMBER}
    \/ lastOp.call.message \in {EMPTY, NULL, NUMBER}

\* Claim C11: in the standalone module, logToServer called with an empty or
\* non-string token, or with an empty or non-string message, fails with a
\* validation error before any network call: it issues no request and leaves
\* nothing awaiting a response.
C11_ValidationBeforeNetwork ==
    (/\ app = "lib"
     /\ lastOp.op = "logToServer"
     /\ lastOp.call.variant = "standalone"
     /\ C11_InvalidArgument)
        => /\ lastOp.branch = "catch"
           /\ lastOp.result.threw
           /\ lastOp.result.error \in ValidationErrors
           /\ lastOp.response = NoLogResponse
           /\ lastOp.call.nreq = 0
           /\ lastOp.call.request = NoRequest
           /\ pending = EmptyBag

\* A standalone call with a valid token and the non-string message 42 was rejected
C11_Witness ==
    /\ app = "lib"
    /\ lastOp.op = "logToServer"
    /\ lastOp.call.variant = "standalone"
    /\ lastOp.call.token = T1
    /\ lastOp.call.message = NUMBER
    /\ lastOp.result.error = "Log message is required"
    /\ lastOp.call.nreq = 0

\* "error", "ERROR", "Warn" and the enumeration value each one stands for
C12_LevelCasings ==
    { [given |-> <<"e","r","r","o","r">>, value |-> <<"e","r","r","o","r">>],
      [given |-> <<"E","R","R","O","R">>, value |-> <<"e","r","r","o","r">>],
      [given |-> <<"W","a","r","n">>,     value |-> <<"w","a","r","n">>],
      [given |-> <<"d","e","b","u","g">>, value |-> <<"d","e","b","u","g">>],
      [given |-> <<"i","n","f","o">>,     value |-> <<"i","n","f","o">>],
      [given |-> <<"w","a","r","n">>,     value |-> <<"w","a","r","n">>],
      [given |-> <<"f","a","t","a","l">>, value |-> <<"f","a","t","a","l">>] }

\* "api", "API", "Utils" and the packages of the UI examples
C12_PackageCasings ==
    { [given |-> <<"a","p","i">>,         value |-> <<"a","p","i">>],
      [given |-> <<"A","P","I">>,         value |-> <<"a","p","i">>],
      [given |-> <<"U","t","i","l","s">>, value |-> <<"u","t","i","l","s">>],
      [given |-> <<"u","t","i","l","s">>, value |-> <<"u","t","i","l","s">>],
      [given |-> <<"c","o","m","p","o","n","e","n","t">>,
       value |-> <<"c","o","m","p","o","n","e","n","t">>],
      [given |-> <<"a","u","t","h">>,     value |-> <<"a","u","t","h">>],
      [given |-> <<"p","a","g","e">>,     value |-> <<"p","a","g","e">>] }

\* Claim C12: for every level and package of the closed enumerations, in any
\* letter casing, the payload logToServer sends has level and package equal
\* to the lowercase enumeration value and stack equal to "frontend"; the
\* UI-bound module sends the message unchanged.
C12_PayloadLowercased ==
    \A c \in Suspended :
        LogsRequestOnWire(c) =>
            \A l \in C12_LevelCasings, p \in C12_PackageCasings :
                (c.level = l.given /\ c.package = p.given)
                    => /\ c.request.body.level = l.value
                       /\ l.value \in LogLevel
                       /\ c.request.body.package = p.value
                       /\ p.value \in FrontendPackage
                       /\ c.request.body.stack = <<"f","r","o","n","t","e","n","d">>
                       /\ c.variant = "lib" => c.request.body.message = c.message

\* The UI-bound module sends level "ERROR", package "API" and message "  hello  "
C12_Witness ==
    \E c \in Suspended :
        /\ app = "lib" /\ c.fn = "logToServer" /\ c.variant = "lib"
        /\ c.level = <<"E","R","R","O","R">>
        /\ c.package = <<"A","P","I">>
        /\ c.message = <<" "," ","h","e","l","l","o"," "," ">>
        /\ c.request.body.level = <<"e","r","r","o","r">>
        /\ c.request.body.package = <<"a","p","i">>
        /\ c.request.body.message = c.message

\* The level each method of a logger stands for
C13_LevelOf(method) ==
    CASE method = "debug" -> <<"d","e","b","u","g">>
      [] method = "info"  -> <<"i","n","f","o">>
      [] method = "warn"  -> <<"w","a","r","n">>
      [] method = "error" -> <<"e","r","r","o","r">>
      [] method = "fatal" -> <<"f","a","t","a","l">>

\* Claim C13: createLogger(t).L(p, m), for L one of debug, info, warn, error,
\* fatal, issues the same request (Authorization header and payload) and
\* yields the same result as logToServer(t, L, p, m), whether the call is
\* rejected by validation, fails or succeeds; the factory returns exactly
\* these five functions.
C13_LoggerForwardsToLogToServer ==
    /\ \A v \in VARIANTS, t \in TOKEN_INPUTS :
           DOMAIN createLogger(v, t) = {"debug", "info", "warn", "error", "fatal"}
    /\ (app = "lib" /\ lastOp.op = "createLogger") =>
           LET c == lastOp.call
               direct == logToServer_begin(c.variant, c.token, C13_LevelOf(c.stage),
                                           c.package, c.message)
           IN  /\ c.nreq = Len(direct.fetches)
               /\ c.request = IF direct.threw THEN NoRequest ELSE direct.fetches[1]
               /\ direct.threw =>
                      /\ lastOp.branch = "catch"
                      /\ lastOp.result = Throw(direct.error, 0, NoLogBody)
                      /\ pending = EmptyBag
               /\ (~direct.threw /\ lastOp.branch = "await") => c \in Suspended
               /\ (~direct.threw /\ lastOp.branch # "await") =>
                      lastOp.result = logToServer_settle(c.variant, lastOp.response)

\* createLogger("t1").warn("API", "  hello  ") of the standalone module was acknowledged
C13_Witness ==
    /\ app = "lib"
    /\ lastOp.op = "createLogger"
    /\ lastOp.branch = "try"
    /\ lastOp.call.variant = "standalone"
    /\ lastOp.call.stage = "warn"
    /\ lastOp.call.token = T1
    /\ lastOp.call.package = <<"A","P","I">>
    /\ lastOp.call.request.authorization = BEARER \o T1
    /\ lastOp.call.request.body.level = <<"w","a","r","n">>
    /\ lastOp.call.request.body.message = <<"h","e","l","l","o">>
    /\ ~lastOp.result.threw

\* An authenticate operation has just received its response from the auth endpoint
C14_AuthAnswered ==
    \/ lastOp.op \in {"authenticate", "AuthSection.handleAuthenticate"}
          /\ lastOp.branch \in {"try", "catch"}
    \/ lastOp.op = "HomePage.authenticate"
          /\ \/ lastOp.branch = "catch" /\ lastOp.call.stage = "auth"
             \/ lastOp.branch = "await" /\ lastOp.call.stage = "log"

\* Claim C14: for every credentials value and every 2xx auth response,
\* authenticate returns a result whose token_type is "Bearer" and whose
\* access_token is exactly the one in the response (the UIs store exactly
\* that token); on a non-2xx status it returns no result and fails with an
\* error carrying the status code.
C14_AuthenticateResult ==
    C14_AuthAnswered =>
        LET response == lastOp.response
            r == lastOp.result
        IN  /\ (~response.rejected /\ response.ok) =>
                   /\ lastOp.op # "HomePage.authenticate" =>
                          /\ lastOp.branch = "try"
                          /\ ~r.threw
                          /\ r.value.token_type = <<"B","e","a","r","e","r">>
                          /\ r.value.access_token = response.body.access_token
                   /\ app # "lib" => token = response.body.access_token
            /\ IsHttpError(response) =>
                   /\ lastOp.branch = "catch"
                   /\ r.threw
                   /\ r.status = response.status
                   /\ r.value \in {NoAuthBody, NoLogBody}
                   /\ lastOp.op # "HomePage.authenticate" =>
                          r.error = "Authentication failed! status"

\* authenticate called with the e-mail "x" returned the token "t2" of the response
C14_Witness ==
    /\ app = "lib"
    /\ lastOp.op = "authenticate"
    /\ lastOp.branch = "try"
    /\ lastOp.call.request.body.email = <<"x">>
    /\ lastOp.response.status = 200
    /\ lastOp.result.value.token_type = <<"B","e","a","r","e","r">>
    /\ lastOp.result.value.access_token = T2

\* A call of logToServer (direct, through a logger, or by LoggingDemo.sendLog) has just
\* been answered 2xx by the logs endpoint
C15_Acknowledged ==
    /\ lastOp.op \in {"logToServer", "createLogger", "LoggingDemo.sendLog"}
    /\ lastOp.branch \in {"try", "catch"}
    /\ ~lastOp.response.rejected
    /\ lastOp.response.ok

\* Claim C15: for every logID the logs endpoint returns in a 2xx response,
\* the acknowledgment logToServer returns has exactly that logID, and the
\* success entry the LoggingDemo UI records for that send, the newest of the
\* list, is identified by that same logID.
C15_LogIdVerbatim ==
    C15_Acknowledged =>
        /\ lastOp.response.body.logID \in LOG_IDS
        /\ lastOp.branch = "try"
        /\ ~lastOp.result.threw
        /\ lastOp.result.value.logID = lastOp.response.body.logID
        /\ lastOp.op = "LoggingDemo.sendLog" =>
               /\ logs # <<>>
               /\ logs[1].id = lastOp.response.body.logID
               /\ logs[1].status = "success"
               /\ logs[1].level = lastOp.call.level
               /\ logs[1].package = lastOp.call.package

\* The LoggingDemo has recorded a second send under the logID "L2" of its response
C15_Witness ==
    /\ app = "index"
    /\ lastOp.op = "LoggingDemo.sendLog"
    /\ lastOp.branch = "try"
    /\ lastOp.response.body.logID = <<"L","2">>
    /\ Len(logs) = 2
    /\ logs[1].id = <<"L","2">>
    /\ logs[1].status = "success"

\* Whitespace to put around a message: nothing, " ", "\t\n", "\r  "
C16_Padding == { EMPTY, <<" ">>, <<"\t","\n">>, <<"\r"," "," ">> }

C17_ButtonDisabled(c) ==
    Falsy(token) \/ LoggingDemo_isLoading = logKey(c.level, c.package)

\* The requests of LoggingDemo.sendLog in flight for the example with this key
C17_InFlightOf(key) ==
    LET S == {c \in Suspended : c.fn = "LoggingDemo.sendLog"
                                  /\ logKey(c.level, c.package) = key}
    IN  BagCardinality([c \in S |-> CopiesIn(c, pending)])

\* While a request of an example is in flight, the button of that example is disabled
C17_ButtonStaysDisabled ==
    \A c \in Suspended : c.fn = "LoggingDemo.sendLog" => C17_ButtonDisabled(c)

\* At most one request per example is in flight
C17_OneInFlightPerExample ==
    \A i \in DOMAIN LOG_EXAMPLES :
        C17_InFlightOf(logKey(LOG_EXAMPLES[i].level, LOG_EXAMPLES[i].package)) <= 1

\* Claim C17: in the LoggingDemo UI, while the request of an example button
\* is in flight that button stays disabled until the request completes, so
\* at most one request per example is in flight at a time, also when sends
\* of different examples overlap and complete in any order.
C17_NoDuplicateInFlight ==
    app = "index" => (C17_ButtonStaysDisabled /\ C17_OneInFlightPerExample)

\* Claim C18: in every reachable state of the demo UI (Index page and starter
\* page), isAuthenticated is true if and only if token is non-null, whatever
\* authentication attempts (succeeding or failing) and log sends came before.
C18_AuthenticatedIffToken ==
    app \in {"index", "page"} => (isAuthenticated <=> token # NULL)

\* The starter page holds the token "t2" and is authenticated right after an authenticate
\* operation that ended in its catch block
C18_Witness ==
    /\ app = "page"
    /\ lastOp.op = "HomePage.authenticate"
    /\ lastOp.branch = "catch"
    /\ isAuthenticated
    /\ token = T2

====
